---- MODULE Spec2Model ----
(***************************************************************************)
(* disk-read-experiment: the bounded-concurrency scheduler of              *)
(* src/disk_usage.js (diskUsage, tick, readOp, statOp) and the loop of     *)
(* src/bin/experiment.js that runs it once per parallelism value.          *)
(*                                                                         *)
(* JavaScript runs one piece of code at a time.  The model has one step    *)
(* per piece: one invocation of tick (the recursion of tick is a stack of  *)
(* such invocations), one promise reaction (a microtask, taken in FIFO     *)
(* order once the synchronous code has returned), and one filesystem       *)
(* completion (taken only when no microtask is left).                      *)
(***************************************************************************)
EXTENDS Integers, Sequences, FiniteSets, TLC

VARIABLES
    fs,             \* the directory tree the run is made against (never changes)
    debugLog,       \* diskUsage's parameter debugLog: what the callback does
    parallelism,    \* diskUsage's parameter of the current run
    parallelisms,   \* experiment.js: the values the loop has still to run
    reports,        \* experiment.js: the Reports the loop has received so far
    result,         \* diskUsage's result record
    activeCount,    \* diskUsage's activeCount
    queue,          \* diskUsage's queue (an array used as a stack)
    completed,      \* diskUsage's completed (undefined is FALSE)
    resultPromise,  \* the promise diskUsage resolves or rejects
    caller,         \* where the call of diskUsage stands for its caller
    frames,         \* number of invocations of tick on the call stack
    microtasks,     \* the promise reactions waiting to run, oldest first
    io,             \* the ops whose fs.stat / fs.readdir call is in flight
    failures,       \* history: the errors the rejection handler has received
    settlements,    \* history: the calls of resultPromise.resolve / .reject
    launched,       \* history: the ops tick has popped and scheduled, in order
    printed,        \* du.js: how its printing of the Report ended
    now             \* the clock new Date() reads

vars == <<fs, debugLog, parallelism, parallelisms, reports, result, activeCount, queue,
          completed, resultPromise, caller, frames, microtasks, io, failures,
          settlements, launched, printed, now>>

----------------------------------------------------------------------------
(* Bounds of the model. *)

\* largest parallelism value tried
MaxParallelism == 3

\* number of invocations of tick the call stack holds: a call beyond it raises
\* RangeError.  Thousands in node; here just deep enough that a run with a
\* ceiling (at most parallelism + 1 nested invocations) never reaches it, so
\* that only the unbounded recursion of parallelism = 0 does.
MaxStack == MaxParallelism + 2

\* number of runs the experiment loop makes
MaxRuns == 2

----------------------------------------------------------------------------
(* The filesystem: paths are 1..n, path 1 is the path given to diskUsage.   *)
(* stats[p] is what fs.stat(p) gives: a kind of entry, or an error code.    *)
(* entries[p] is what fs.readdir(p) lists, readErr[p] the error code it     *)
(* fails with ("" when it succeeds).                                        *)

Root == 1

Null == -1

ErrorCodes == {"ENOENT", "EACCES"}

Tree(stats, sizes, entries, readErr) ==
    [stats |-> stats, sizes |-> sizes, entries |-> entries, readErr |-> readErr]

Trees ==
    { \* the path does not exist
      Tree(<<"ENOENT">>, <<0>>, << <<>> >>, <<"">>),
      \* the path is a regular file
      Tree(<<"FILE">>, <<7>>, << <<>> >>, <<"">>),
      \* an empty directory
      Tree(<<"DIR">>, <<0>>, << <<>> >>, <<"">>),
      \* a directory that cannot be listed
      Tree(<<"DIR">>, <<0>>, << <<>> >>, <<"EACCES">>),
      \* one file of 100 bytes and one empty subdirectory
      Tree(<<"DIR", "FILE", "DIR">>, <<0, 100, 0>>,
           << <<2, 3>>, <<>>, <<>> >>, <<"", "", "">>),
      \* the same, listed in the other order
      Tree(<<"DIR", "DIR", "FILE">>, <<0, 0, 100>>,
           << <<2, 3>>, <<>>, <<>> >>, <<"", "", "">>),
      \* two files of different sizes
      Tree(<<"DIR", "FILE", "FILE">>, <<0, 3, 5>>,
           << <<2, 3>>, <<>>, <<>> >>, <<"", "", "">>),
      \* a file that cannot be inspected, beside a file that can
      Tree(<<"DIR", "EACCES", "FILE">>, <<0, 0, 5>>,
           << <<2, 3>>, <<>>, <<>> >>, <<"", "", "">>),
      \* a file that can be inspected, beside one that cannot
      Tree(<<"DIR", "FILE", "ENOENT">>, <<0, 5, 0>>,
           << <<2, 3>>, <<>>, <<>> >>, <<"", "", "">>),
      \* a subdirectory holding a socket and a file
      Tree(<<"DIR", "DIR", "OTHER", "FILE">>, <<0, 0, 0, 3>>,
           << <<2>>, <<3, 4>>, <<>>, <<>> >>, <<"", "", "", "">>),
      \* a subdirectory that cannot be listed, beside a file
      Tree(<<"DIR", "DIR", "FILE">>, <<0, 0, 2>>,
           << <<2, 3>>, <<>>, <<>> >>, <<"", "EACCES", "">>) }

Paths(t) == 1..Len(t.stats)

----------------------------------------------------------------------------
(* Values. *)

\* a queue entry { path, exec }
Op(path, exec) == [path |-> path, exec |-> exec]

\* what queue.pop() returns on an empty array
Undefined == Op(0, "undefined")

\* the error fs.stat / fs.readdir rejects with
FsError(code, syscall, path) ==
    [name |-> "Error", code |-> code, syscall |-> syscall, path |-> path]

\* what op.exec(op) throws when op is undefined
TypeError == [name |-> "TypeError", code |-> "", syscall |-> "", path |-> 0]

\* what a call throws when the call stack is full
RangeError == [name |-> "RangeError", code |-> "", syscall |-> "", path |-> 0]

NoError == [name |-> "", code |-> "", syscall |-> "", path |-> 0]

\* new Promise(...): state and rejection reason.  The value a fulfilled
\* resultPromise carries is the result object itself (a reference: what the
\* caller reads through it is the variable result).
Pending == [state |-> "pending", reason |-> NoError]

\* resolve / reject of a promise: a settled promise ignores them
Settle(p, state, reason) ==
    IF p.state = "pending" THEN [state |-> state, reason |-> reason] ELSE p

\* debugLog: left out (undefined, or the null of du.js), or a function that
\* returns, or a function that throws
Callbacks == {"undefined", "returns", "throws"}

\* what a throwing debugLog throws
CallbackError == [name |-> "CallbackError", code |-> "", syscall |-> "", path |-> 0]

\* a promise reaction waiting in the microtask queue
Job(job, op, err) == [job |-> job, op |-> op, err |-> err]

\* the record diskUsage builds
NewResult(p, t) ==
    [path |-> Root, parallelism |-> p, startedAt |-> t, completedAt |-> Null,
     maxActive |-> 0, size |-> 0, files |-> 0, directories |-> 0]

\* new Date(): the clock never goes back
Dates == {now, now + 1}

----------------------------------------------------------------------------
(* diskUsage(path, parallelism) up to its call of tick: lines 16-37. *)

\* diskUsage keeping the counters of the run before
diskUsage_SharedResult(p, t) ==
    /\ parallelism' = p
    /\ result' = [result EXCEPT !.parallelism = p, !.startedAt = t,
                                !.completedAt = Null]
    /\ now' = t
    /\ activeCount' = 0
    /\ queue' = <<Op(Root, "statOp")>>
    /\ completed' = FALSE
    /\ resultPromise' = Pending
    /\ caller' = "running"
    /\ frames' = 1
    /\ microtasks' = <<>>
    /\ io' = <<>>
    /\ failures' = <<>>
    /\ settlements' = <<>>
    /\ launched' = <<>>

diskUsage(p, t) ==
    /\ parallelism' = p
    /\ result' = NewResult(p, t)
    /\ now' = t
    /\ activeCount' = 0
    /\ queue' = <<Op(Root, "statOp")>>
    /\ completed' = FALSE
    /\ resultPromise' = Pending
    /\ caller' = "running"
    /\ frames' = 1
    /\ microtasks' = <<>>
    /\ io' = <<>>
    /\ failures' = <<>>
    /\ settlements' = <<>>
    /\ launched' = <<>>

Init ==
    /\ fs \in Trees
    /\ debugLog \in Callbacks
    /\ parallelism \in 0..MaxParallelism
    /\ parallelisms \in UNION {[1..n -> 0..MaxParallelism] : n \in 0..(MaxRuns - 1)}
    /\ reports = <<>>
    /\ result = NewResult(parallelism, 0)
    /\ now = 0
    /\ activeCount = 0
    /\ queue = <<Op(Root, "statOp")>>
    /\ completed = FALSE
    /\ resultPromise = Pending
    /\ caller = "running"
    /\ frames = 1
    /\ microtasks = <<>>
    /\ io = <<>>
    /\ failures = <<>>
    /\ settlements = <<>>
    /\ launched = <<>>
    /\ printed = ""

----------------------------------------------------------------------------
(* tick: one step is one invocation, lines 49-89.  The call of line 88 is   *)
(* the last statement, so when an invocation returns, all the invocations   *)
(* below it on the stack return with it.                                    *)

\* MustWait with the comparison off by one
MustWait_OffByOne == parallelism # 0 /\ parallelism < activeCount

\* line 54: the ceiling is reached
MustWait == parallelism # 0 /\ parallelism <= activeCount

\* Stopped with the check of line 50 left out
Stopped_Never == FALSE

\* line 50: the run is over
Stopped == completed

\* NothingToDo looking at the queue alone
NothingToDo_QueueOnly == Len(queue) = 0

\* line 59: nothing in flight and nothing queued
NothingToDo == activeCount = 0 /\ Len(queue) = 0

\* queue.pop(): the last element, undefined on an empty array
Pop == IF queue = <<>> THEN Undefined ELSE queue[Len(queue)]

\* the queue read without removing
Popped_NotRemoved == queue

Popped == IF queue = <<>> THEN <<>> ELSE SubSeq(queue, 1, Len(queue) - 1)

\* the outermost tick returns to diskUsage (line 39 returns resultPromise) or
\* to the fulfilment handler (line 75)
Return ==
    /\ frames' = 0
    /\ caller' = IF caller = "running" THEN "awaiting" ELSE caller

\* RangeError unwinds the stack: out of diskUsage, whose promise is rejected
\* with it, or out of the fulfilment handler, where nothing handles it
Throw ==
    /\ frames' = 0
    /\ caller' = IF caller = "running" THEN "threw" ELSE caller

\* lines 61-64
Complete ==
    /\ completed' = TRUE
    /\ \E t \in Dates :
          /\ now' = t
          /\ result' = [result EXCEPT !.completedAt = t]
    /\ resultPromise' = Settle(resultPromise, "fulfilled", NoError)
    /\ settlements' = Append(settlements, "resolve")
    /\ Return
    /\ UNCHANGED <<activeCount, queue, microtasks, launched>>

\* Launch without the call of line 88: one op per invocation
Launch_NotEager ==
    /\ queue' = Popped
    /\ activeCount' = activeCount + 1
    /\ microtasks' = Append(microtasks, Job("exec", Pop, NoError))
    /\ launched' = Append(launched, Pop)
    /\ Return
    /\ UNCHANGED <<completed, result, resultPromise, settlements, now>>

\* Launch recording the peak of activeCount in the result
Launch_TracksPeak ==
    /\ \/ /\ frames < MaxStack
          /\ queue' = Popped
          /\ activeCount' = activeCount + 1
          /\ microtasks' = Append(microtasks, Job("exec", Pop, NoError))
          /\ launched' = Append(launched, Pop)
          /\ frames' = frames + 1
          /\ UNCHANGED caller
       \/ /\ frames = MaxStack
          /\ queue' = Popped
          /\ activeCount' = activeCount + 1
          /\ microtasks' = Append(microtasks, Job("exec", Pop, NoError))
          /\ launched' = Append(launched, Pop)
          /\ Throw
       \/ /\ frames = MaxStack
          /\ queue' = Popped
          /\ activeCount' = activeCount + 1
          /\ UNCHANGED <<microtasks, launched>>
          /\ Throw
       \/ /\ frames = MaxStack
          /\ UNCHANGED <<queue, activeCount, microtasks, launched>>
          /\ Throw
    /\ result' = [result EXCEPT !.maxActive =
                      IF activeCount' > @ THEN activeCount' ELSE @]
    /\ UNCHANGED <<completed, resultPromise, settlements, now>>

\* lines 68-88.  With the stack full, the invocation raises RangeError at the
\* first call it cannot make: queue.pop() (line 68), Promise.resolve() or
\* .then() (lines 70-72) or tick() (line 88).
Launch ==
    /\ \/ /\ frames < MaxStack
          /\ queue' = Popped
          /\ activeCount' = activeCount + 1
          /\ microtasks' = Append(microtasks, Job("exec", Pop, NoError))
          /\ launched' = Append(launched, Pop)
          /\ frames' = frames + 1
          /\ UNCHANGED caller
       \/ /\ frames = MaxStack
          /\ queue' = Popped
          /\ activeCount' = activeCount + 1
          /\ microtasks' = Append(microtasks, Job("exec", Pop, NoError))
          /\ launched' = Append(launched, Pop)
          /\ Throw
       \/ /\ frames = MaxStack
          /\ queue' = Popped
          /\ activeCount' = activeCount + 1
          /\ UNCHANGED <<microtasks, launched>>
          /\ Throw
       \/ /\ frames = MaxStack
          /\ UNCHANGED <<queue, activeCount, microtasks, launched>>
          /\ Throw
    /\ UNCHANGED <<completed, result, resultPromise, settlements, now>>

tick ==
    /\ frames > 0
    /\ IF Stopped \/ MustWait
       THEN /\ Return
            /\ UNCHANGED <<completed, result, resultPromise, settlements, now,
                           activeCount, queue, microtasks, launched>>
       ELSE IF NothingToDo
       THEN Complete
       ELSE Launch
    /\ UNCHANGED <<fs, debugLog, printed, parallelism, parallelisms, reports, io, failures>>

----------------------------------------------------------------------------
(* The promise reactions of lines 70-85.  They run one at a time, oldest    *)
(* first, when no synchronous code is running.                              *)

MayRunMicrotask == frames = 0 /\ caller # "running" /\ microtasks # <<>>

\* line 71, () => op.exec(op): op.exec throws TypeError on undefined;
\* otherwise statOp / readOp runs up to its await, with the fs call issued
exec ==
    /\ MayRunMicrotask
    /\ Head(microtasks).job = "exec"
    /\ LET op == Head(microtasks).op
       IN  IF op = Undefined
           THEN /\ microtasks' = Append(Tail(microtasks),
                                        Job("onRejected", op, TypeError))
                /\ UNCHANGED io
           ELSE /\ microtasks' = Tail(microtasks)
                /\ io' = Append(io, op)
    /\ UNCHANGED <<fs, debugLog, printed, parallelism, parallelisms, reports, result, activeCount,
                   queue, completed, resultPromise, caller, frames, failures,
                   settlements, launched, now>>

\* lines 73-76
onFulfilled ==
    /\ MayRunMicrotask
    /\ Head(microtasks).job = "onFulfilled"
    /\ microtasks' = Tail(microtasks)
    /\ activeCount' = activeCount - 1
    /\ frames' = 1
    /\ UNCHANGED <<fs, debugLog, printed, parallelism, parallelisms, reports, result, queue,
                   completed, resultPromise, caller, io, failures,
                   settlements, launched, now>>

\* Reject without the guard of line 80
Reject_Unguarded(err) ==
    /\ completed' = TRUE
    /\ resultPromise' = Settle(resultPromise, "rejected", err)
    /\ settlements' = Append(settlements, "reject")

\* lines 80-83
Reject(err) ==
    IF ~completed
    THEN /\ completed' = TRUE
         /\ resultPromise' = Settle(resultPromise, "rejected", err)
         /\ settlements' = Append(settlements, "reject")
    ELSE UNCHANGED <<completed, resultPromise, settlements>>

\* lines 77-84
onRejected ==
    /\ MayRunMicrotask
    /\ Head(microtasks).job = "onRejected"
    /\ microtasks' = Tail(microtasks)
    /\ activeCount' = activeCount - 1
    /\ failures' = Append(failures, Head(microtasks).err)
    /\ Reject(Head(microtasks).err)
    /\ UNCHANGED <<fs, debugLog, printed, parallelism, parallelisms, reports, result, queue,
                   caller, frames, io, launched, now>>

----------------------------------------------------------------------------
(* The filesystem completes a call: statOp / readOp resumes after its       *)
(* await.  A completion is taken from the event loop only when no microtask *)
(* is left.                                                                 *)

MayComplete(i) ==
    /\ frames = 0 /\ caller # "running" /\ microtasks = <<>>
    /\ i \in 1..Len(io)

Without(s, i) == SubSeq(s, 1, i - 1) \o SubSeq(s, i + 1, Len(s))

\* Inspect forgetting to add the size of a file
Inspect_SizeForgotten(p) ==
    IF fs.stats[p] = "DIR"
    THEN /\ result' = [result EXCEPT !.directories = @ + 1]
         /\ queue' = Append(queue, Op(p, "readOp"))
    ELSE IF fs.stats[p] = "FILE"
    THEN /\ result' = [result EXCEPT !.files = @ + 1]
         /\ UNCHANGED queue
    ELSE UNCHANGED <<result, queue>>

\* Inspect not counting the directory the run starts from
Inspect_RootUncounted(p) ==
    IF fs.stats[p] = "DIR"
    THEN /\ result' = [result EXCEPT !.directories = IF p = Root THEN @ ELSE @ + 1]
         /\ queue' = Append(queue, Op(p, "readOp"))
    ELSE IF fs.stats[p] = "FILE"
    THEN /\ result' = [result EXCEPT !.files = @ + 1,
                                     !.size = @ + fs.sizes[p]]
         /\ UNCHANGED queue
    ELSE UNCHANGED <<result, queue>>

\* Inspect counting an entry of another kind as a file
Inspect_OtherCounted(p) ==
    IF fs.stats[p] = "DIR"
    THEN /\ result' = [result EXCEPT !.directories = @ + 1]
         /\ queue' = Append(queue, Op(p, "readOp"))
    ELSE IF fs.stats[p] = "FILE"
    THEN /\ result' = [result EXCEPT !.files = @ + 1,
                                     !.size = @ + fs.sizes[p]]
         /\ UNCHANGED queue
    ELSE /\ result' = [result EXCEPT !.files = @ + 1]
         /\ UNCHANGED queue

\* Inspect assigning the size of the file instead of adding it
Inspect_SizeOverwritten(p) ==
    IF fs.stats[p] = "DIR"
    THEN /\ result' = [result EXCEPT !.directories = @ + 1]
         /\ queue' = Append(queue, Op(p, "readOp"))
    ELSE IF fs.stats[p] = "FILE"
    THEN /\ result' = [result EXCEPT !.files = @ + 1,
                                     !.size = fs.sizes[p]]
         /\ UNCHANGED queue
    ELSE UNCHANGED <<result, queue>>

\* lines 105-115, on the Stats of path p
Inspect(p) ==
    IF fs.stats[p] = "DIR"
    THEN /\ result' = [result EXCEPT !.directories = @ + 1]
         /\ queue' = Append(queue, Op(p, "readOp"))
    ELSE IF fs.stats[p] = "FILE"
    THEN /\ result' = [result EXCEPT !.files = @ + 1,
                                     !.size = @ + fs.sizes[p]]
         /\ UNCHANGED queue
    ELSE UNCHANGED <<result, queue>>

\* debugLog && debugLog(...) (lines 95, 108, 112, 114) throws
LogThrows(log) == log = "throws"

\* lines 102-116, with log for debugLog: the callback is called after the
\* counters and the queue have been updated
statOpLogging(i, log) ==
    /\ MayComplete(i)
    /\ io[i].exec = "statOp"
    /\ io' = Without(io, i)
    /\ LET p == io[i].path
       IN  IF fs.stats[p] \in ErrorCodes
           THEN /\ microtasks' = <<Job("onRejected", io[i],
                                       FsError(fs.stats[p], "stat", p))>>
                /\ UNCHANGED <<result, queue>>
           ELSE /\ Inspect(p)
                /\ microtasks' = IF LogThrows(log)
                                 THEN <<Job("onRejected", io[i], CallbackError)>>
                                 ELSE <<Job("onFulfilled", io[i], NoError)>>
    /\ UNCHANGED <<fs, debugLog, printed, parallelism, parallelisms, reports, activeCount, completed,
                   resultPromise, caller, frames, failures,
                   settlements, launched, now>>

statOp(i) == statOpLogging(i, debugLog)

\* lines 97-99: one enqueueStat per entry, in the order listed
Enqueued(q, p, names) == q \o [k \in 1..Len(names) |-> Op(names[k], "statOp")]

\* lines 91-100, with log for debugLog: the callback is called before the
\* entries are enqueued
readOpLogging(i, log) ==
    /\ MayComplete(i)
    /\ io[i].exec = "readOp"
    /\ io' = Without(io, i)
    /\ LET p == io[i].path
       IN  IF fs.readErr[p] \in ErrorCodes
           THEN /\ microtasks' = <<Job("onRejected", io[i],
                                       FsError(fs.readErr[p], "scandir", p))>>
                /\ UNCHANGED queue
           ELSE IF LogThrows(log)
           THEN /\ microtasks' = <<Job("onRejected", io[i], CallbackError)>>
                /\ UNCHANGED queue
           ELSE /\ queue' = Enqueued(queue, p, fs.entries[p])
                /\ microtasks' = <<Job("onFulfilled", io[i], NoError)>>
    /\ UNCHANGED <<fs, debugLog, printed, parallelism, parallelisms, reports, result, activeCount,
                   completed, resultPromise, caller, frames, failures,
                   settlements, launched, now>>

readOp(i) == readOpLogging(i, debugLog)

----------------------------------------------------------------------------
(* experiment.js, lines 37-43: the loop awaits the Report of one run, reads *)
(* it, and starts the next run.  A rejection ends the loop (lines 51-54).   *)

experiment ==
    /\ caller = "awaiting"
    /\ resultPromise.state = "fulfilled"
    /\ frames = 0 /\ microtasks = <<>>
    /\ reports' = Append(reports, result)
    /\ IF parallelisms # <<>>
       THEN /\ parallelisms' = Tail(parallelisms)
            /\ \E t \in Dates : diskUsage(Head(parallelisms), t)
       ELSE /\ caller' = "done"
            /\ UNCHANGED <<parallelism, parallelisms, result, activeCount, queue,
                           completed, resultPromise, frames, microtasks, io,
                           failures,
                   settlements, launched, now>>
    /\ UNCHANGED <<fs, debugLog, printed>>

----------------------------------------------------------------------------
(* du.js, lines 23-39: the command makes one run and prints its Report.     *)
(* Of the fields it reads, only errorPaths is read through (.length): when  *)
(* the record has no such field the printer throws TypeError at line 33 and *)
(* the command ends in its catch (lines 40-43).                             *)

DuPrints(report) ==
    IF "errorPaths" \in DOMAIN report THEN "report" ELSE "TypeError"

du ==
    /\ caller = "awaiting"
    /\ resultPromise.state = "fulfilled"
    /\ frames = 0 /\ microtasks = <<>>
    /\ reports = <<>> /\ parallelisms = <<>>
    /\ printed' = DuPrints(result)
    /\ caller' = "done"
    /\ UNCHANGED <<fs, debugLog, parallelism, parallelisms, reports, result,
                   activeCount, queue, completed, resultPromise, frames,
                   microtasks, io, failures, settlements, launched, now>>

----------------------------------------------------------------------------

Next ==
    \/ tick
    \/ exec
    \/ onFulfilled
    \/ onRejected
    \/ \E i \in 1..Len(io) : statOp(i)
    \/ \E i \in 1..Len(io) : readOp(i)
    \/ experiment
    \/ du

Spec == Init /\ [][Next]_vars

TypeOK ==
    /\ fs \in Trees
    /\ parallelism \in 0..MaxParallelism
    /\ activeCount \in Int
    /\ completed \in BOOLEAN
    /\ resultPromise.state \in {"pending", "fulfilled", "rejected"}
    /\ caller \in {"running", "awaiting", "threw", "done"}
    /\ debugLog \in Callbacks
    /\ printed \in {"", "report", "TypeError"}
    /\ frames \in 0..MaxStack

----------------------------------------------------------------------------
(* Vocabulary of the properties. *)

\* no stat and no readdir of the tree fails
NoFailure ==
    \A p \in Paths(fs) : fs.stats[p] \notin ErrorCodes /\ fs.readErr[p] \notin ErrorCodes

\* nothing of the run is left to happen: no code running, no reaction
\* waiting, no filesystem call in flight
Quiescent == frames = 0 /\ caller # "running" /\ microtasks = <<>> /\ io = <<>>

\* the run has delivered a Report / an error to its caller
Reported == resultPromise.state = "fulfilled"

Failed == resultPromise.state = "rejected" \/ caller = "threw"

\* the error the caller of diskUsage receives
Outcome == IF caller = "threw" THEN RangeError ELSE resultPromise.reason

\* the loop of experiment.js has nothing left to do either
AtRest == Quiescent /\ ~(caller = "awaiting" /\ Reported)

Totals(r) == <<r.files, r.directories, r.size>>

\* the filesystem errors among the failures observed
FsFailures == SelectSeq(failures, LAMBDA e : e.name = "Error")

\* the error classes of the specification: InvalidArgument is the failure of
\* the seeding inspect, TraversalError any other filesystem failure
ErrorClass(e) ==
    IF e.name = "Error" /\ e.syscall = "stat" /\ e.path = Root THEN "InvalidArgument"
    ELSE IF e.name = "Error" THEN "TraversalError"
    ELSE e.name

IsPrefix(s, t) == Len(s) <= Len(t) /\ SubSeq(t, 1, Len(s)) = s

\* the root holds exactly one regular file of 100 bytes and one empty
\* subdirectory
OneFileOneEmptyDir ==
    /\ NoFailure
    /\ fs.stats[Root] = "DIR"
    /\ Len(fs.entries[Root]) = 2
    /\ \E f, d \in {fs.entries[Root][1], fs.entries[Root][2]} :
          /\ fs.stats[f] = "FILE" /\ fs.sizes[f] = 100
          /\ fs.stats[d] = "DIR" /\ fs.entries[d] = <<>>

----------------------------------------------------------------------------
(* C1: at every instant of a run activeCount is at least 0 and, when the   *)
(* ceiling is set (parallelism > 0), at most the ceiling.                   *)
C1_ActiveWithinCeiling ==
    /\ activeCount >= 0
    /\ parallelism > 0 => activeCount <= parallelism

\* a run that has filled a ceiling of 2 or more and seen a task fail
C1_Witness ==
    /\ parallelism >= 2
    /\ activeCount = parallelism - 1
    /\ failures # <<>>

(* C2: on a tree where no stat or readdir fails (and with no logging        *)
(* callback that throws), whatever the ceiling, the run ends resolved with  *)
(* the Report: once nothing is left to happen, the caller has a Report.     *)
C2_RunCompletes ==
    (NoFailure /\ ~LogThrows(debugLog) /\ Quiescent) => (Reported /\ caller # "threw")

(* C3: the Report is delivered only in a state where the queue is empty,    *)
(* activeCount is 0 and every launched op has completed (no filesystem call *)
(* in flight, no reaction waiting).                                         *)
C3_ReportOnlyWhenDrained ==
    Reported =>
        /\ queue = <<>>
        /\ activeCount = 0
        /\ io = <<>>
        /\ microtasks = <<>>

\* a Report of a tree with a subdirectory
C3_Witness == Reported /\ result.directories >= 2 /\ result.files >= 1

(* C4: within a run resultPromise is settled by at most one call of resolve *)
(* or reject, keeps what it holds once settled, and a rejection holds the   *)
(* first error the rejection handler received.                              *)
C4_SettledOnce ==
    [][ /\ Len(settlements') <= 1
        /\ (resultPromise.state # "pending" /\ caller' # "running")
              => resultPromise' = resultPromise
        /\ resultPromise'.state = "rejected"
              => (failures' # <<>> /\ resultPromise'.reason = failures'[1])
        /\ caller = "threw" => caller' = "threw" ]_vars

\* a rejected run in which a later, different failure was discarded
C4_Witness ==
    /\ resultPromise.state = "rejected"
    /\ Len(failures) >= 2
    /\ failures[Len(failures)] # failures[1]

(* C5: on a tree without failures (the loop passes no logging callback) the *)
(* loop over the parallelism values gets a Report from every run, whatever  *)
(* the values, and all the Reports show the same files, directories and     *)
(* size.                                                                    *)
C5_SameAggregateForEveryCeiling ==
    (NoFailure /\ debugLog = "undefined" /\ AtRest) =>
        /\ caller = "done"
        /\ \A i, j \in 1..Len(reports) : Totals(reports[i]) = Totals(reports[j])

(* C6: once a stat or readdir has failed, the run is rejected with that     *)
(* filesystem error, and no Report is delivered.                            *)
C6_FailsWithTheFsError ==
    FsFailures # <<>> =>
        /\ resultPromise.state = "rejected"
        /\ resultPromise.reason = FsFailures[1]
        /\ caller # "threw"

(* C7: after the run has failed, no step launches an op: nothing is removed *)
(* from the queue (it only grows at its end), activeCount does not go up,   *)
(* and the ops in progress (reaction waiting or filesystem call in flight)  *)
(* get no fewer only.                                                       *)
C7_NoLaunchAfterFailure ==
    [][ Failed =>
          /\ IsPrefix(queue, queue')
          /\ activeCount' <= activeCount
          /\ Len(microtasks') + Len(io') <= Len(microtasks) + Len(io) ]_vars

\* a failed run in which a stat already in flight completed afterwards and
\* left its follow-up in the queue
C7_Witness ==
    /\ resultPromise.state = "rejected"
    /\ result.directories = 1
    /\ queue = <<Op(Root, "readOp")>>
    /\ Quiescent

(* C8: when the root path does not exist, whatever the ceiling, the run     *)
(* ends failed with InvalidArgument (the failure of the seeding inspect),   *)
(* and no Report is delivered.                                              *)
C8_MissingRootIsInvalidArgument ==
    fs.stats[Root] = "ENOENT" =>
        /\ ~Reported
        /\ Quiescent => (Failed /\ ErrorClass(Outcome) = "InvalidArgument")

(* C9 as stated: when the root path is a regular file, no Report is         *)
(* delivered (the run fails at the seeding inspect).                        *)
C9_FileRootFails == fs.stats[Root] = "FILE" => ~Reported

(* C9, amended: when the root path is a regular file the seeding inspect    *)
(* succeeds: no filesystem error is ever observed, and every Report         *)
(* delivered shows files = 1, directories = 0 and the size of that file.    *)
C9_FileRootIsCounted ==
    fs.stats[Root] = "FILE" =>
        /\ FsFailures = <<>>
        /\ Reported => Totals(result) = <<1, 0, fs.sizes[Root]>>

\* the Report of a run on a regular file
C9_Witness == fs.stats[Root] = "FILE" /\ Reported

(* C10 as stated: for a root holding one file of 100 bytes and one empty    *)
(* subdirectory every Report shows files = 1, directories = 1, size = 100.  *)
C10_OneDirectory == (OneFileOneEmptyDir /\ Reported) => Totals(result) = <<1, 1, 100>>

(* C10, amended: for that root every Report shows files = 1,                *)
(* directories = 2 (the root itself is counted) and size = 100.             *)
C10_RootCounted == (OneFileOneEmptyDir /\ Reported) => Totals(result) = <<1, 2, 100>>

\* the Report of a run on that tree
C10_Witness == OneFileOneEmptyDir /\ Reported

----------------------------------------------------------------------------
(* C11: the logging callback never affects scheduling, whatever it does:    *)
(* every step of a run with a callback is a step the run without one makes  *)
(* from the same state (same queue, activeCount, reactions and outcome).    *)
C11_CallbackNeverAffectsScheduling ==
    [][ \/ tick \/ exec \/ onFulfilled \/ onRejected \/ experiment \/ du
        \/ \E i \in 1..Len(io) : statOpLogging(i, "undefined")
        \/ \E i \in 1..Len(io) : readOpLogging(i, "undefined") ]_vars

(* C12: an invocation of tick that finds the queue empty and a task in      *)
(* flight launches nothing (queue, activeCount and the reactions scheduled  *)
(* stay as they are), and every op launched was taken from the queue.       *)
C12_NothingLaunchedFromEmptyQueue ==
    [][ /\ (frames > 0 /\ queue = <<>> /\ activeCount > 0)
              => (queue' = queue /\ activeCount' = activeCount
                  /\ microtasks' = microtasks)
        /\ \A k \in 1..Len(launched') : launched'[k] # Undefined ]_vars

(* C13: when the outermost tick returns with the outcome unresolved, the    *)
(* queue is empty or the ceiling is set and activeCount equals it.          *)
C13_CeilingFilledEagerly ==
    [][ (frames > 0 /\ frames' = 0 /\ resultPromise'.state = "pending")
          => \/ queue' = <<>>
             \/ (parallelism > 0 /\ activeCount' = parallelism) ]_vars

\* tick has just returned at the ceiling and left an item in the queue
C13_Witness ==
    /\ frames = 0 /\ caller = "awaiting"
    /\ resultPromise.state = "pending"
    /\ queue # <<>>
    /\ activeCount = parallelism
    /\ microtasks # <<>> /\ Head(microtasks).job = "exec"

\* the reference count: the Inspect rule applied to path p and to every
\* descendant of it, as <<files, directories, size>>
RECURSIVE Measure(_), MeasureAll(_)
Measure(p) ==
    IF fs.stats[p] = "FILE" THEN <<1, 0, fs.sizes[p]>>
    ELSE IF fs.stats[p] = "DIR"
    THEN LET below == MeasureAll(fs.entries[p])
         IN  <<below[1], below[2] + 1, below[3]>>
    ELSE <<0, 0, 0>>
MeasureAll(names) ==
    IF names = <<>> THEN <<0, 0, 0>>
    ELSE LET a == Measure(Head(names))
             b == MeasureAll(Tail(names))
         IN  <<a[1] + b[1], a[2] + b[2], a[3] + b[3]>>

\* how many times op has been launched in the current run
Launches(op) == Cardinality({k \in 1..Len(launched) : launched[k] = op})

(* C14: the totals of a Report equal the reference count of the tree:       *)
(* directories (the root included), regular files and the sum of their      *)
(* sizes; entries of another kind count in none.                            *)
C14_ReportEqualsReferenceCount ==
    /\ Reported => Totals(result) = Measure(Root)
    /\ \A k \in 1..Len(reports) : Totals(reports[k]) = Measure(Root)

\* a Report over a tree that holds an entry of another kind, inspected
C14_Witness ==
    /\ Reported
    /\ \E p \in Paths(fs) : fs.stats[p] = "OTHER" /\ Launches(Op(p, "statOp")) = 1
    /\ result.files > 0

(* C15: no item taken from the queue is launched twice, and when the run    *)
(* ends with a Report every path has been inspected exactly once and every  *)
(* directory listed exactly once, nothing else having been launched.        *)
C15_EachItemConsumedOnce ==
    /\ \A j, k \in 1..Len(launched) :
          (j # k /\ launched[j] = launched[k]) => launched[j] = Undefined
    /\ Reported =>
          /\ \A p \in Paths(fs) :
                /\ Launches(Op(p, "statOp")) = 1
                /\ Launches(Op(p, "readOp")) = IF fs.stats[p] = "DIR" THEN 1 ELSE 0
          /\ Launches(Undefined) = 0

\* a Report over a directory within a directory, both listed
C15_Witness ==
    /\ Reported
    /\ \E p \in Paths(fs) :
          /\ p # Root /\ fs.stats[p] = "DIR" /\ fs.entries[p] # <<>>
          /\ Launches(Op(p, "readOp")) = 1
    /\ Len(launched) > 4

C17_ReportImmutable ==
    [][ /\ IsPrefix(reports, reports')
        /\ Reported =>
              IF caller = "awaiting" /\ caller' = "running"
              THEN reports' = Append(reports, result)
              ELSE result' = result
        /\ result'.completedAt # result.completedAt =>
              \/ ~Reported /\ Reported'
              \/ caller = "awaiting" /\ caller' = "running" ]_vars

\* a Report that has been handed to the caller and used
C17_Witness ==
    /\ Reported /\ caller = "done"
    /\ result.completedAt # Null
    /\ result.files > 0

(* C18: within a run size, files and directories never decrease, also after *)
(* the run has failed; only the completion of a stat changes them, the      *)
(* completion of a readdir changes none.                                    *)
C18_CountersMonotone ==
    [][ /\ ~(caller = "awaiting" /\ caller' = "running") =>
              /\ result'.size >= result.size
              /\ result'.files >= result.files
              /\ result'.directories >= result.directories
              /\ Totals(result') # Totals(result) =>
                    \E i \in 1..Len(io) : statOp(i)
        /\ (\E i \in 1..Len(io) : readOp(i)) => Totals(result') = Totals(result) ]_vars

\* a file counted by a stat that completed after the run had been rejected
C18_Witness ==
    /\ parallelism >= 2 /\ Failed
    /\ result.files > 0 /\ result.size > 0

(* C19: maxActive is 0 in every state and in every Report delivered,        *)
(* whatever activeCount has been.                                           *)
C19_MaxActiveNeverUpdated ==
    /\ result.maxActive = 0
    /\ \A k \in 1..Len(reports) : reports[k].maxActive = 0

\* a Report has been delivered and activeCount has passed 1
C19_Witness ==
    /\ reports # <<>>
    /\ activeCount >= 2

(* C20: when diskUsage resolves with a Report, the printer of du.js runs to *)
(* its end: it never raises TypeError on a field of the record.             *)
C20_PrinterRunsToItsEnd == printed # "TypeError"

====
